---- MODULE Spec2Model ----
(***************************************************************************)
(* pdf2img.py: rasterise the pages of a PDF, stack the rasters vertically  *)
(* with a fixed padding and save the result.                               *)
(*                                                                         *)
(* Strings are sequences of one-character strings.  sys.argv is the TLA+   *)
(* sequence argv, so Python's sys.argv[k] is argv[k + 1] (see Arg).        *)
(* An optional integer (Python None or an int) is <<>> or <<n>>.           *)
(* A pixel of a source raster is <<tag, x, y>> (tag = number of the image, *)
(* x, y = position inside it); a pixel of a fresh RGBA canvas is           *)
(* Transparent.                                                            *)
(***************************************************************************)
EXTENDS Integers, Sequences, FiniteSets, TLC

VARIABLES pc, argv, is_first_arg_range, start, stop, openPath, doc, pages,
          imgs, padding, combined_img, y_offset, idx, pasteLog,
          savedPath, files, exitStatus, err

vars == <<pc, argv, is_first_arg_range, start, stop, openPath, doc, pages,
          imgs, padding, combined_img, y_offset, idx, pasteLog,
          savedPath, files, exitStatus, err>>

(* ------------------------------ bounds ---------------------------------- *)
MaxTokLen == 3
MaxPages == 3
MaxImgs == 3
MaxDim == 2
MaxPadding == 2

(* --------------------------- program constants -------------------------- *)
DefaultPadding == 55

None == <<>>
Some(n) == <<n>>
Transparent == <<>>

Digits == {"0", "1", "2", "3", "4", "5", "6", "7", "8", "9"}
DigitVal(c) ==
    CASE c = "0" -> 0 [] c = "1" -> 1 [] c = "2" -> 2 [] c = "3" -> 3
      [] c = "4" -> 4 [] c = "5" -> 5 [] c = "6" -> 6 [] c = "7" -> 7
      [] c = "8" -> 8 [] c = "9" -> 9

Min(a, b) == IF a < b THEN a ELSE b
Max(a, b) == IF a < b THEN b ELSE a

(* ------------------------- Python string helpers ------------------------ *)
\* s.find(c): 0-based index of the first occurrence of c, -1 when absent.
Find(s, c) ==
    IF \E k \in 1..Len(s) : s[k] = c
    THEN (CHOOSE k \in 1..Len(s) : s[k] = c /\ \A j \in 1..(k - 1) : s[j] # c) - 1
    ELSE -1

\* s.rfind(c): 0-based index of the last occurrence of c, -1 when absent.
RFind(s, c) ==
    IF \E k \in 1..Len(s) : s[k] = c
    THEN (CHOOSE k \in 1..Len(s) : s[k] = c /\ \A j \in (k + 1)..Len(s) : s[j] # c) - 1
    ELSE -1

\* Python's clamping of a slice bound i against a length n.
ClampIndex(i, n) == IF i < 0 THEN Max(n + i, 0) ELSE Min(i, n)

\* s[:i]
SliceTo(s, i) == SubSeq(s, 1, ClampIndex(i, Len(s)))

\* s[j:]
SliceFrom(s, j) == SubSeq(s, ClampIndex(j, Len(s)) + 1, Len(s))

\* Value of a non-empty run of decimal digits.
RECURSIVE DigitsValue(_)
DigitsValue(s) ==
    IF Len(s) = 0 THEN 0
    ELSE 10 * DigitsValue(SubSeq(s, 1, Len(s) - 1)) + DigitVal(s[Len(s)])

\* int(s) inside try/except ValueError: Some(value), or None when int raises.
\* int accepts an optional sign followed by at least one decimal digit
\* (surrounding whitespace and single underscores between digits, which int
\* also accepts, do not occur in the argument alphabet used here).
IntOrNone(s) ==
    LET body == IF Len(s) > 0 /\ s[1] \in {"+", "-"} THEN Tail(s) ELSE s
        neg == Len(s) > 0 /\ s[1] = "-"
    IN IF Len(body) > 0 /\ \A k \in 1..Len(body) : body[k] \in Digits
       THEN Some(IF neg THEN 0 - DigitsValue(body) ELSE DigitsValue(body))
       ELSE None

\* Length of the longest run of digits of s that starts at 1-based position p.
RECURSIVE DigitRun(_, _)
DigitRun(s, p) ==
    IF p <= Len(s) /\ s[p] \in Digits THEN 1 + DigitRun(s, p + 1) ELSE 0

\* bool(re.match(r'^\d*:\d*$', s)); $ also matches before a final newline.
MatchRange(s) ==
    LET d1 == DigitRun(s, 1)
        c == d1 + 1
        d2 == DigitRun(s, c + 1)
        e == c + d2 + 1
    IN /\ c <= Len(s)
       /\ s[c] = ":"
       /\ \/ e = Len(s) + 1
          \/ e = Len(s) /\ s[e] = "\n"

\* First position in a..b of p that holds something other than '.', 0 if none.
RECURSIVE FirstNonDot(_, _, _)
FirstNonDot(p, a, b) ==
    IF a > b THEN 0
    ELSE IF p[a] # "." THEN a
    ELSE FirstNonDot(p, a + 1, b)

\* os.path.splitext(p)[0] (posixpath): the extension starts at the last dot
\* of the last path component, leading dots of the component not counting.
SplitextRoot(p) ==
    LET sepIndex == RFind(p, "/")
        dotIndex == RFind(p, ".")
    IN IF dotIndex > sepIndex /\ FirstNonDot(p, sepIndex + 2, dotIndex) # 0
       THEN SliceTo(p, dotIndex)
       ELSE p

PngSuffix == <<".", "p", "n", "g">>

(* ------------------------------ argv access ----------------------------- *)
Arg(k) == argv[k + 1]
ArgC == Len(argv)
BoolInt(b) == IF b THEN 1 ELSE 0

(* ------------------------------ rasters --------------------------------- *)
\* Image.frombytes('RGB', (pix.width, pix.height), pix.samples)
page_to_img(page) == [width |-> page.width, height |-> page.height, tag |-> page.tag]

SrcPixel(img, x, y) == <<img.tag, x, y>>

\* Image.new('RGBA', (w, h)): every pixel zeroed, i.e. fully transparent.
ImageNew(w, h) ==
    [width |-> w, height |-> h,
     px |-> [c \in (0..(w - 1)) \X (0..(h - 1)) |-> Transparent]]

ImagePasteFullRows(canvas, img, x0, y0) ==
    [canvas EXCEPT !.px =
        [c \in DOMAIN canvas.px |->
            IF c[2] >= y0 /\ c[2] < y0 + img.height
            THEN SrcPixel(img, Min(c[1] - x0, img.width - 1), c[2] - y0)
            ELSE canvas.px[c]]]

\* canvas.paste(img, (x0, y0)): overwrite the box of img's size at (x0, y0),
\* clipped to the canvas; an RGB source is opaque everywhere.
ImagePaste(canvas, img, x0, y0) ==
    [canvas EXCEPT !.px =
        [c \in DOMAIN canvas.px |->
            IF /\ c[1] >= x0 /\ c[1] < x0 + img.width
               /\ c[2] >= y0 /\ c[2] < y0 + img.height
            THEN SrcPixel(img, c[1] - x0, c[2] - y0)
            ELSE canvas.px[c]]]

RECURSIVE SumHeights(_)
SumHeights(s) == IF Len(s) = 0 THEN 0 ELSE s[1].height + SumHeights(Tail(s))

RECURSIVE MaxWidth(_)
MaxWidth(s) == IF Len(s) = 1 THEN s[1].width ELSE Max(s[1].width, MaxWidth(Tail(s)))

\* max(img.width for img in imgs)
CombinedWidth(s) == MaxWidth(s)

CombinedHeightPadPerImage(s, pad) == SumHeights(s) + Len(s) * pad

\* sum(img.height for img in imgs) + (len(imgs) - 1) * padding
CombinedHeight(s, pad) == SumHeights(s) + (Len(s) - 1) * pad

NextOffsetNoPadding(y, img, pad) == y + img.height

NextOffsetNotAccumulated(y, img, pad) == img.height + pad

\* y_offset += img.height + padding
NextOffset(y, img, pad) == y + img.height + pad

NoImage == [width |-> 0, height |-> 0, px |-> <<>>]

\* doc[start:stop]: Python slice over the pages, step 1.
DocSlice(d, a, b) ==
    LET n == Len(d)
        lo == IF a = None THEN 0 ELSE ClampIndex(a[1], n)
        hi == IF b = None THEN n ELSE ClampIndex(b[1], n)
    IN SubSeq(d, lo + 1, hi)

(* ------------------------------ input sets ------------------------------ *)
TokenAlphabet == {"3", "7", ":", "a"}

RECURSIVE SeqsUpTo(_, _)
SeqsUpTo(S, n) ==
    IF n = 0 THEN {<<>>}
    ELSE LET shorter == SeqsUpTo(S, n - 1)
         IN shorter \cup {Append(s, x) : s \in shorter, x \in S}

Tokens == SeqsUpTo(TokenAlphabet, MaxTokLen) \ {<<>>}

Paths == { <<"a", ".", "a">>, <<"a">>, <<".", "a">>, <<"a", ".", "3", "/", "a">>,
           <<"a", ".", "a", ".", "a">> }

OutPaths == { <<"o", ".", "p", "n", "g">>, <<"3", ":", "7">> }

ProgName == <<"p">>

ArgVectors ==
    {<<ProgName>>}
    \cup {<<ProgName, t>> : t \in Tokens \cup Paths}
    \cup {<<ProgName, t, p>> : t \in Tokens \cup Paths, p \in Paths}
    \cup {<<ProgName, t, p, o>> : t \in Tokens \cup Paths, p \in Paths, o \in OutPaths}

PageDims == {<<1, 1>>, <<2, 2>>}

Docs ==
    UNION { { [k \in 1..n |-> [width |-> f[k][1], height |-> f[k][2], tag |-> k]]
              : f \in [1..n -> PageDims] } : n \in 1..MaxPages }

ImgSeqs ==
    UNION { { [k \in 1..n |-> [width |-> f[k][1], height |-> f[k][2], tag |-> k]]
              : f \in [1..n -> (1..MaxDim) \X (1..MaxDim)] } : n \in 0..MaxImgs }

(* ------------------------------ initial states -------------------------- *)
\* The script started from the command line; combine_imgs' padding parameter
\* is bound to its default because the script calls combine_imgs(imgs).
Init ==
    /\ pc = "start"
    /\ argv \in ArgVectors
    /\ is_first_arg_range = FALSE
    /\ start = None
    /\ stop = None
    /\ openPath = None
    /\ doc = <<>>
    /\ pages = <<>>
    /\ imgs = <<>>
    /\ padding = DefaultPadding
    /\ combined_img = NoImage
    /\ y_offset = 0
    /\ idx = 1
    /\ pasteLog = <<>>
    /\ savedPath = None
    /\ files = {}
    /\ exitStatus = None
    /\ err = "none"

\* combine_imgs called directly with any list of rasters and any padding >= 0.
InitCombine ==
    /\ pc = "combine"
    /\ argv = <<ProgName>>
    /\ is_first_arg_range = FALSE
    /\ start = None
    /\ stop = None
    /\ openPath = None
    /\ doc = <<>>
    /\ pages = <<>>
    /\ imgs \in ImgSeqs
    /\ padding \in 0..MaxPadding
    /\ combined_img = NoImage
    /\ y_offset = 0
    /\ idx = 1
    /\ pasteLog = <<>>
    /\ savedPath = None
    /\ files = {}
    /\ exitStatus = None
    /\ err = "none"

\* An uncaught exception, or exit(1): the interpreter ends with status 1.
Die(e) ==
    /\ pc' = "exit"
    /\ exitStatus' = Some(1)
    /\ err' = e

ParseStopFromColon(a) == IntOrNone(SliceFrom(a, Find(a, ":")))

\* i = a.find(':'); start = int(a[:i]), None on ValueError
ParseStart(a) == IntOrNone(SliceTo(a, Find(a, ":")))

\* i = a.find(':'); stop = int(a[i + 1:]), None on ValueError
ParseStop(a) == IntOrNone(SliceFrom(a, Find(a, ":") + 1))

RangeWithoutPathAnySingleArg(r, n) == n = 2

\* is_first_arg_range and len(sys.argv) == 2
RangeWithoutPath(r, n) == r /\ n = 2

(* ------------------------------ the script ------------------------------ *)
\* Argument checks and extraction of start and stop from sys.argv[1].
ParseArgs ==
    /\ pc = "start"
    /\ IF ArgC = 1
       THEN /\ Die("SystemExit")
            /\ UNCHANGED <<is_first_arg_range, start, stop>>
       ELSE LET r == MatchRange(Arg(1))
            IN IF RangeWithoutPath(r, ArgC)
               THEN /\ Die("SystemExit")
                    /\ is_first_arg_range' = r
                    /\ UNCHANGED <<start, stop>>
               ELSE /\ is_first_arg_range' = r
                    /\ start' = ParseStart(Arg(1))
                    /\ stop' = ParseStop(Arg(1))
                    /\ pc' = "open"
                    /\ UNCHANGED <<exitStatus, err>>
    /\ UNCHANGED <<argv, openPath, doc, pages, imgs, padding, combined_img,
                   y_offset, idx, pasteLog, savedPath, files>>

\* doc = pymupdf.open(sys.argv[1 + int(is_first_arg_range)]): any document,
\* or an exception for a missing or corrupt file.
OpenDoc ==
    /\ pc = "open"
    /\ openPath' = Some(Arg(1 + BoolInt(is_first_arg_range)))
    /\ \/ /\ doc' \in Docs
          /\ pc' = "slice"
          /\ UNCHANGED <<exitStatus, err>>
       \/ /\ Die("FileDataError")
          /\ UNCHANGED doc
    /\ UNCHANGED <<argv, is_first_arg_range, start, stop, pages, imgs, padding,
                   combined_img, y_offset, idx, pasteLog, savedPath, files>>

\* doc[start:stop], the argument of doc_to_imgs.
SlicePages ==
    /\ pc = "slice"
    /\ pages' = DocSlice(doc, start, stop)
    /\ pc' = "doc_to_imgs"
    /\ UNCHANGED <<argv, is_first_arg_range, start, stop, openPath, doc, imgs,
                   padding, combined_img, y_offset, idx, pasteLog, savedPath,
                   files, exitStatus, err>>

\* One step of map(page_to_img, pages): the next page is rendered, or the
\* renderer raises.
PageToImg ==
    /\ pc = "doc_to_imgs"
    /\ Len(imgs) < Len(pages)
    /\ \/ /\ imgs' = Append(imgs, page_to_img(pages[Len(imgs) + 1]))
          /\ UNCHANGED <<pc, exitStatus, err>>
       \/ /\ Die("RuntimeError")
          /\ UNCHANGED imgs
    /\ UNCHANGED <<argv, is_first_arg_range, start, stop, openPath, doc, pages,
                   padding, combined_img, y_offset, idx, pasteLog, savedPath,
                   files>>

DocToImgsDoneEarly(done, selected) == Len(done) <= Len(selected)

\* map(page_to_img, pages) is exhausted
DocToImgsDone(done, selected) == Len(done) = Len(selected)

\* list(...) is complete: doc_to_imgs returns and combine_imgs is called.
DocToImgsReturn ==
    /\ pc = "doc_to_imgs"
    /\ DocToImgsDone(imgs, pages)
    /\ pc' = "combine"
    /\ UNCHANGED <<argv, is_first_arg_range, start, stop, openPath, doc, pages,
                   imgs, padding, combined_img, y_offset, idx, pasteLog,
                   savedPath, files, exitStatus, err>>

(* ------------------------------ combine_imgs ---------------------------- *)
\* Size computation and allocation of the canvas; max() of an empty sequence
\* raises ValueError.
CombineEntry ==
    /\ pc = "combine"
    /\ IF Len(imgs) = 0
       THEN /\ Die("ValueError")
            /\ UNCHANGED <<combined_img, y_offset, idx>>
       ELSE LET combined_width == CombinedWidth(imgs)
                combined_height == CombinedHeight(imgs, padding)
            IN /\ combined_img' = ImageNew(combined_width, combined_height)
               /\ y_offset' = 0
               /\ idx' = 1
               /\ pc' = "paste"
               /\ UNCHANGED <<exitStatus, err>>
    /\ UNCHANGED <<argv, is_first_arg_range, start, stop, openPath, doc, pages,
                   imgs, padding, pasteLog, savedPath, files>>

\* One iteration of the paste loop.
Paste ==
    /\ pc = "paste"
    /\ idx <= Len(imgs)
    /\ combined_img' = ImagePaste(combined_img, imgs[idx], 0, y_offset)
    /\ pasteLog' = Append(pasteLog, <<0, y_offset>>)
    /\ y_offset' = NextOffset(y_offset, imgs[idx], padding)
    /\ idx' = idx + 1
    /\ UNCHANGED <<pc, argv, is_first_arg_range, start, stop, openPath, doc,
                   pages, imgs, padding, savedPath, files, exitStatus, err>>

\* return combined_img
CombineReturn ==
    /\ pc = "paste"
    /\ idx > Len(imgs)
    /\ pc' = "save"
    /\ UNCHANGED <<argv, is_first_arg_range, start, stop, openPath, doc, pages,
                   imgs, padding, combined_img, y_offset, idx, pasteLog,
                   savedPath, files, exitStatus, err>>

(* ------------------------------ saving ---------------------------------- *)
OutputPathUnshifted ==
    LET r == BoolInt(is_first_arg_range)
    IN IF ArgC > 2
       THEN Arg(2)
       ELSE SplitextRoot(Arg(1 + r)) \o PngSuffix

\* The path handed to combined_img.save.
OutputPath ==
    LET r == BoolInt(is_first_arg_range)
    IN IF ArgC > 2 + r
       THEN Arg(2 + r)
       ELSE SplitextRoot(Arg(1 + r)) \o PngSuffix

FileOf(p, st) ==
    [path |-> p, state |-> st,
     width |-> combined_img.width, height |-> combined_img.height]

\* combined_img.save(path): the file is written and the script ends, or the
\* save raises (unknown extension, unwritable path), leaving either nothing
\* or an incomplete file behind.
Save ==
    /\ pc = "save"
    /\ savedPath' = Some(OutputPath)
    /\ \/ /\ files' = files \cup {FileOf(OutputPath, "complete")}
          /\ pc' = "exit"
          /\ exitStatus' = Some(0)
          /\ UNCHANGED err
       \/ /\ Die("OSError")
          /\ \/ UNCHANGED files
             \/ files' = files \cup {FileOf(OutputPath, "partial")}
    /\ UNCHANGED <<argv, is_first_arg_range, start, stop, openPath, doc, pages,
                   imgs, padding, combined_img, y_offset, idx, pasteLog>>

Next ==
    \/ ParseArgs
    \/ OpenDoc
    \/ SlicePages
    \/ PageToImg
    \/ DocToImgsReturn
    \/ CombineEntry
    \/ Paste
    \/ CombineReturn
    \/ Save

Spec == Init /\ [][Next]_vars

NextCombine ==
    \/ CombineEntry
    \/ Paste
    \/ CombineReturn

SpecCombine == InitCombine /\ [][NextCombine]_vars

(* ------------------------------ properties ------------------------------ *)
\* Reference definitions used by the properties, written from the documented
\* behaviour and independently of the operators of the script above.
RECURSIVE ClaimOffset(_)
ClaimOffset(i) ==
    IF i = 1 THEN 0 ELSE ClaimOffset(i - 1) + imgs[i - 1].height + padding

RECURSIVE ClaimSumTo(_)
ClaimSumTo(k) == IF k = 0 THEN 0 ELSE ClaimSumTo(k - 1) + imgs[k].height

ClaimMaxW ==
    CHOOSE w \in {imgs[i].width : i \in 1..Len(imgs)} :
        \A j \in 1..Len(imgs) : imgs[j].width <= w

ClaimIsRange(t) ==
    \E k \in 1..Len(t) :
        /\ t[k] = ":"
        /\ \A j \in (1..Len(t)) \ {k} : t[j] \in Digits

ClaimColon(t) == CHOOSE k \in 1..Len(t) : t[k] = ":"

RECURSIVE ClaimPow10(_)
ClaimPow10(n) == IF n = 0 THEN 1 ELSE 10 * ClaimPow10(n - 1)

RECURSIVE ClaimDec(_)
ClaimDec(s) ==
    IF s = <<>> THEN 0
    ELSE DigitVal(Head(s)) * ClaimPow10(Len(s) - 1) + ClaimDec(Tail(s))

ClaimOpt(s) == IF s = <<>> THEN None ELSE Some(ClaimDec(s))

ClaimShift == IF ClaimIsRange(Arg(1)) THEN 1 ELSE 0

ClaimArgError == ArgC = 1 \/ (ArgC = 2 /\ ClaimIsRange(Arg(1)))

\* Position of the dot that starts the extension of path q, 0 when q has none:
\* the last dot of the last component, preceded in that component by some
\* character that is not a dot.
ClaimExtDot(q) ==
    LET cand == { i \in 1..Len(q) :
                    /\ q[i] = "."
                    /\ \A m \in (i + 1)..Len(q) : q[m] \notin {".", "/"}
                    /\ \E j \in 1..(i - 1) :
                          /\ q[j] # "."
                          /\ \A m \in j..i : q[m] # "/" }
    IN IF cand = {} THEN 0 ELSE CHOOSE i \in cand : TRUE

ClaimDefaultOut(q) ==
    (IF ClaimExtDot(q) = 0 THEN q ELSE SubSeq(q, 1, ClaimExtDot(q) - 1))
        \o <<".", "p", "n", "g">>

\* The script got past its argument checks.
Parsed ==
    \/ pc \in {"open", "slice", "doc_to_imgs", "combine", "paste", "save"}
    \/ pc = "exit" /\ err # "SystemExit"

\* Rows of the canvas that hold at least one pixel of image number i.
ClaimRows(i) ==
    { y \in 0..(combined_img.height - 1) :
        \E x \in 0..(combined_img.width - 1) :
            /\ combined_img.px[<<x, y>>] # Transparent
            /\ combined_img.px[<<x, y>>][1] = imgs[i].tag }

SetMax(S) == CHOOSE m \in S : \A n \in S : n <= m
SetMin(S) == CHOOSE m \in S : \A n \in S : m <= n

\* C1: for a non-empty list of images and a padding >= 0, the canvas that
\* combine_imgs allocates and returns is exactly max(w_i) wide and exactly
\* sum(h_i) + padding * (n - 1) high.
C1_CanvasSize ==
    pc \in {"paste", "save"} =>
        /\ combined_img.width = ClaimMaxW
        /\ combined_img.height = ClaimSumTo(Len(imgs)) + padding * (Len(imgs) - 1)
        /\ DOMAIN combined_img.px =
              (0..(ClaimMaxW - 1))
                 \X (0..(ClaimSumTo(Len(imgs)) + padding * (Len(imgs) - 1) - 1))

C1_Witness ==
    /\ pc = "save"
    /\ Len(imgs) = 3
    /\ padding = 2
    /\ imgs[1].width # imgs[2].width
    /\ combined_img.height = SumHeights(imgs) + 4

\* C2: the image at index i is pasted with its top-left corner at column 0
\* and at row sum over j < i of (h_j + padding), so once combine_imgs has
\* returned every image sits, in input order, pixel for pixel at that place.
C2_OrderAndOffsets ==
    /\ \A i \in 1..Len(pasteLog) : pasteLog[i] = <<0, ClaimOffset(i)>>
    /\ \A i \in 1..(Len(pasteLog) - 1) :
          pasteLog[i + 1][2] = pasteLog[i][2] + imgs[i].height + padding
    /\ pc = "save" =>
          /\ Len(pasteLog) = Len(imgs)
          /\ \A i \in 1..Len(imgs) :
                \A x \in 0..(imgs[i].width - 1) : \A y \in 0..(imgs[i].height - 1) :
                    combined_img.px[<<x, ClaimOffset(i) + y>>] = <<imgs[i].tag, x, y>>

C2_Witness ==
    /\ pc = "save"
    /\ Len(imgs) = 3
    /\ padding = 1
    /\ pasteLog[3] = <<0, imgs[1].height + imgs[2].height + 2>>

\* C8: in the returned canvas the last row of an image and the first row of
\* the image after it are separated by exactly padding rows, all of whose
\* pixels are fully transparent.
C8_GapIsPaddingTransparent ==
    pc = "save" =>
        \A i \in 1..(Len(imgs) - 1) :
            LET bottom == SetMax(ClaimRows(i))
                top == SetMin(ClaimRows(i + 1))
            IN /\ top - bottom - 1 = padding
               /\ \A y \in (bottom + 1)..(top - 1) :
                     \A x \in 0..(combined_img.width - 1) :
                         combined_img.px[<<x, y>>] = Transparent

C8_Witness ==
    /\ pc = "save"
    /\ Len(imgs) >= 2
    /\ padding = 2
    /\ SetMin(ClaimRows(2)) - SetMax(ClaimRows(1)) = 3

\* C9: for every pasted image narrower than the canvas, the canvas pixels of
\* its row band at columns >= its width are fully transparent.
C9_LeftAligned ==
    \A i \in 1..Len(pasteLog) :
        imgs[i].width < combined_img.width =>
            \A y \in 0..(imgs[i].height - 1) :
                \A x \in imgs[i].width..(combined_img.width - 1) :
                    combined_img.px[<<x, ClaimOffset(i) + y>>] = Transparent

C9_Witness ==
    /\ pc = "save"
    /\ \E i \in 1..Len(imgs) : imgs[i].width < combined_img.width
    /\ \E i \in 1..Len(imgs) : imgs[i].width = combined_img.width

\* C3: when the selected page range is empty the run ends in an explicit
\* empty-selection error, not in an incidental library exception, and writes
\* no file.
C3_EmptySelectionExplicitError ==
    (pc = "exit" /\ doc # <<>> /\ pages = <<>>) =>
        /\ err = "EmptySelectionError"
        /\ files = {}

\* C4: when the first argument is not a range token it is the PDF path and
\* the whole document is selected: start and stop are both None.
C4_NonRangeSelectsAll ==
    (Parsed /\ ~ClaimIsRange(Arg(1))) =>
        /\ start = None
        /\ stop = None
        /\ (openPath # None => openPath = Some(Arg(1)))

\* C5: when the first argument is a range token, start is the integer left
\* of the colon and stop the integer right of it (None where empty), and the
\* PDF path and the optional output path are read one position further.
C5_RangeTokenParsed ==
    (Parsed /\ ClaimIsRange(Arg(1))) =>
        LET t == Arg(1)
            k == ClaimColon(t)
        IN /\ start = ClaimOpt(SubSeq(t, 1, k - 1))
           /\ stop = ClaimOpt(SubSeq(t, k + 1, Len(t)))
           /\ (t = <<"3", ":", "7">> => start = <<3>> /\ stop = <<7>>)
           /\ (t = <<":", "7">> => start = None /\ stop = <<7>>)
           /\ (t = <<"3", ":">> => start = <<3>> /\ stop = None)
           /\ (t = <<":">> => start = None /\ stop = None)
           /\ (openPath # None => openPath = Some(Arg(2)))
           /\ (savedPath # None /\ ArgC > 3 => savedPath = Some(Arg(3)))

C5_Witness ==
    /\ pc = "exit"
    /\ exitStatus = Some(0)
    /\ ArgC = 4
    /\ Arg(1) = <<":", "7">>
    /\ start = None
    /\ stop = <<7>>
    /\ Len(doc) = 3
    /\ savedPath = Some(Arg(3))

\* C6: combining starts only after every selected page has been rasterised,
\* saving only after combining has finished, and a run in which argument
\* parsing, opening, rasterisation or combination fails writes no file and
\* ends with a non-zero exit status.
C6_NoPartialOutput ==
    /\ (pc \in {"combine", "paste", "save"} \/ combined_img # NoImage) =>
          /\ Len(imgs) = Len(pages)
          /\ \A i \in 1..Len(pages) : imgs[i].tag = pages[i].tag
    /\ (pc = "save" \/ savedPath # None \/ files # {}) =>
          /\ Len(imgs) > 0
          /\ Len(pasteLog) = Len(imgs)
          /\ idx = Len(imgs) + 1
    /\ (pc = "exit" /\ err \in {"SystemExit", "FileDataError", "RuntimeError", "ValueError"}) =>
          /\ files = {}
          /\ savedPath = None
          /\ exitStatus # None
          /\ exitStatus # Some(0)
    /\ (pc = "exit" /\ exitStatus = Some(0)) => err = "none"

C6_Witness ==
    /\ pc = "exit"
    /\ err = "RuntimeError"
    /\ Len(pages) = 3
    /\ Len(imgs) = 2
    /\ files = {}
    /\ exitStatus = Some(1)

\* C7: the run ends with status 1 without having opened a document or
\* written a file exactly when no argument is given or the only argument is
\* a range token.
C7_ExitOneIffArgError ==
    pc # "start" =>
        (ClaimArgError <=>
            (pc = "exit" /\ exitStatus = Some(1) /\ openPath = None /\ files = {}))

C7_Witness ==
    /\ pc = "exit"
    /\ ArgC = 2
    /\ Arg(1) = <<"3", ":", "7">>
    /\ exitStatus = Some(1)
    /\ openPath = None

\* C10: the file is saved to the explicit output argument when one follows
\* the PDF path, with or without a leading range token, and otherwise to the
\* PDF path with its extension replaced by .png.
C10_OutputPath ==
    savedPath # None =>
        savedPath = Some(IF ArgC > 2 + ClaimShift
                         THEN Arg(2 + ClaimShift)
                         ELSE ClaimDefaultOut(Arg(1 + ClaimShift)))

C10_Witness ==
    /\ pc = "exit"
    /\ exitStatus = Some(0)
    /\ ArgC = 3
    /\ ClaimIsRange(Arg(1))
    /\ Arg(2) = <<"a", ".", "a", ".", "a">>
    /\ savedPath = Some(<<"a", ".", "a", ".", "p", "n", "g">>)
====
